---------------------------- MODULE Spec2Model ----------------------------
(* A model of the agentic workflow engine: the process-wide configuration   *)
(* holder (src/config/ai_models_config.py), the content templaters, the     *)
(* demo pipeline (examples/enhanced_demo.py) and the package agents         *)
(* (src/agents).                                                            *)
(*                                                                          *)
(* Text is a sequence of tokens.  A token is a pair <<name, n>>: SP is one  *)
(* whitespace character, <<c, 1>> is a non-blank piece of text glued to its *)
(* neighbours, and <<name, n>> with n > 1 stands for a fixed run of n       *)
(* whitespace-separated words of a template or of a model's answer.         *)
EXTENDS Integers, Sequences, FiniteSets, TLC

VARIABLES
    provider,         \* AIConfig.provider (the AIProvider's value)
    api_keys,         \* AIConfig.api_keys: provider value -> key text
    research_config,  \* AIConfig.research_config: model, simulation_mode
    writing_config,   \* AIConfig.writing_config
    image_config,     \* AIConfig.image_config
    lastEnable,       \* the last enable_real_ai call and how it ended
    program,          \* what the process runs: "config", "demo", "package",
                      \* "runs", "functions" or "bmi"
    clock,            \* datetime.now(), in ticks
    openai_client,    \* enhanced_demo.openai_client: FALSE is None
    run,              \* the demo orchestrator's process call in flight
    clients,          \* the package agents' openai_client: FALSE is None
    call,             \* the package agent's process call in flight
    trials,           \* the direct calls of the pure functions made so far
    peer              \* a second orchestrator call, in flight beside run

cfgVars == <<provider, api_keys, research_config, writing_config, image_config>>

vars == <<provider, api_keys, research_config, writing_config, image_config,
          lastEnable, program, clock, openai_client, run, clients, call,
          trials, peer>>

---------------------------------------------------------------------------
(* Bounds of the model *)

\* Topics are texts of at most MaxTopicLen characters.
MaxTopicLen == 2

\* The clock stops at MaxClock.
MaxClock == 1

\* At most MaxTrials direct calls of the pure functions are followed.
MaxTrials == 2

---------------------------------------------------------------------------
(* Text *)

SP == <<" ", 0>>

Atom(c) == <<c, 1>>

Str(s) == <<Atom(s)>>

StartsWith(s, prefix) ==
    /\ Len(s) >= Len(prefix)
    /\ SubSeq(s, 1, Len(prefix)) = prefix

\* A run of n whitespace-separated words, written as one token.
Words(name, n) == <<name, n>>

IsSpace(tok) == tok[2] = 0

\* sub occurs in text as a contiguous piece.
Contains(text, sub) ==
    \E i \in 0..(Len(text) - Len(sub)) : SubSeq(text, i + 1, i + Len(sub)) = sub

RECURSIVE Join(_, _)
\* sep.join(list)
Join(list, sep) ==
    IF Len(list) = 0 THEN <<>>
    ELSE IF Len(list) = 1 THEN list[1]
    ELSE list[1] \o sep \o Join(Tail(list), sep)

RECURSIVE Concat(_)
\* "".join(list)
Concat(list) == IF Len(list) = 0 THEN <<>> ELSE list[1] \o Concat(Tail(list))

RECURSIVE SumTo(_, _)
SumTo(f, n) == IF n = 0 THEN 0 ELSE f[n] + SumTo(f, n - 1)

\* len(text.split()): the number of maximal runs of non-blank text.  A token
\* that follows a non-blank token continues the word that token ends.
WordCount(text) ==
    LET starts(i) == i = 1 \/ IsSpace(text[i - 1])
        words(i) == IF IsSpace(text[i]) THEN 0
                    ELSE IF starts(i) THEN text[i][2] ELSE text[i][2] - 1
    IN SumTo([i \in 1..Len(text) |-> words(i)], Len(text))

\* str.lower()
Lower(text) ==
    [i \in 1..Len(text) |-> IF text[i] = Atom("E") THEN Atom("e") ELSE text[i]]

RECURSIVE LStrip(_)
LStrip(text) ==
    IF Len(text) > 0 /\ IsSpace(Head(text)) THEN LStrip(Tail(text)) ELSE text

RECURSIVE RStrip(_)
RStrip(text) ==
    IF Len(text) > 0 /\ IsSpace(text[Len(text)])
    THEN RStrip(SubSeq(text, 1, Len(text) - 1))
    ELSE text

\* str.strip()
Strip(text) == RStrip(LStrip(text))

\* list[:n]
Take(list, n) == SubSeq(list, 1, IF Len(list) < n THEN Len(list) ELSE n)

\* dict-like values: d[k] raises KeyError unless k is a key of d.
HasKeys(d, ks) == ks \subseteq DOMAIN d

Restrict(d, ks) == [k \in ks |-> d[k]]

---------------------------------------------------------------------------
(* AIProvider and the credentials *)

SIMULATION == "simulation"
OPENAI == "openai"
ANTHROPIC == "anthropic"
GOOGLE == "google"

AIProvider == {SIMULATION, OPENAI, ANTHROPIC, GOOGLE}

KeyProviders == {OPENAI, ANTHROPIC, GOOGLE}

\* os.getenv gives None for an unset variable; None and the empty string are
\* both falsy and the code only ever tests `not key`.
NoKey == <<>>

Chars(s) == [i \in 1..Len(s) |-> Atom(s[i])]

SK == Chars(<<"s", "k", "-">>)
ORG == Chars(<<"o", "r", "g", "-">>)
SK_ANT == Chars(<<"s", "k", "-", "a", "n", "t", "-">>)
PLAIN == Chars(<<"k", "e", "y", "-">>)

MinKeyLen == 20

\* A key of exactly n characters that starts with prefix.
MakeKey(prefix, n) == prefix \o [i \in 1..(n - Len(prefix)) |-> Atom("x")]

\* The credentials the environment may hold: none, one character short of the
\* length limit, and at the limit with each prefix the format check reads.
KeyChoices ==
    {NoKey, MakeKey(SK, MinKeyLen - 1), MakeKey(SK_ANT, MinKeyLen - 1)}
    \cup {MakeKey(p, MinKeyLen) : p \in {SK, ORG, SK_ANT, PLAIN}}

Mut_ApiKeyGet(p) ==
    IF p \in DOMAIN api_keys THEN api_keys[p] ELSE MakeKey(PLAIN, MinKeyLen)

\* self.api_keys.get(provider.value)
ApiKeyGet(p) == IF p \in DOMAIN api_keys THEN api_keys[p] ELSE NoKey

Mut_has_valid_api_key(p) ==
    LET key == ApiKeyGet(p) IN
    IF key = NoKey THEN FALSE
    ELSE IF Len(key) < MinKeyLen THEN FALSE
    ELSE IF p = OPENAI /\ ~(StartsWith(key, SK) \/ StartsWith(key, ORG)) THEN FALSE
    ELSE TRUE

has_valid_api_key(p) ==
    LET key == ApiKeyGet(p) IN
    IF key = NoKey THEN FALSE
    ELSE IF Len(key) < MinKeyLen THEN FALSE
    ELSE IF p = OPENAI /\ ~(StartsWith(key, SK) \/ StartsWith(key, ORG)) THEN FALSE
    ELSE IF p = ANTHROPIC /\ ~StartsWith(key, SK_ANT) THEN FALSE
    ELSE TRUE

---------------------------------------------------------------------------
(* Models and their validation *)

\* A configuration with no "model" entry: config.get("model") is None.
NoModel == ""

ChatModels == {"gpt-4-1106-preview", "gpt-4", "gpt-3.5-turbo"}
ImageModels == {"dall-e-3", "dall-e-2"}

SUPPORTED_MODELS(model_type) ==
    IF model_type = "image" THEN ImageModels ELSE ChatModels

Mut_validate_model_config(agent_type, config) ==
    IF ~config.simulation_mode
    THEN IF config.model = NoModel THEN "UnsupportedModelError"
         ELSE IF config.model \notin SUPPORTED_MODELS("chat")
              THEN "UnsupportedModelError"
              ELSE ""
    ELSE ""

\* What _validate_model_config raises for one configuration ("" for nothing).
validate_model_config(agent_type, config) ==
    IF ~config.simulation_mode
    THEN IF config.model = NoModel THEN "UnsupportedModelError"
         ELSE LET model_type == IF agent_type = "image" THEN "image" ELSE "chat" IN
              IF config.model \notin SUPPORTED_MODELS(model_type)
              THEN "UnsupportedModelError"
              ELSE ""
    ELSE ""

validate_configs(rc, wc, ic) ==
    IF validate_model_config("research", rc) # "" THEN "UnsupportedModelError"
    ELSE IF validate_model_config("writing", wc) # "" THEN "UnsupportedModelError"
    ELSE validate_model_config("image", ic)

\* The models a configuration may name when enable_real_ai is called: the
\* defaults of __init__, the other supported ones, one the allowlist lacks and
\* none at all.
ChatModelChoices == {"gpt-4-1106-preview", "gpt-4", "o4-mini-2025-04-16", NoModel}
ImageModelChoices == {"dall-e-3", "dall-e-2", "gpt-4", NoModel}

DefaultConfig(model) == [model |-> model, simulation_mode |-> TRUE]

---------------------------------------------------------------------------
(* The content templaters *)

Mut_get_enhanced_research_content(topic) ==
    [title |-> <<Atom("Strategic"), SP, Atom("Analysis:"), SP>> \o Lower(topic),
     executive_summary |->
        <<Words("Comprehensive analysis of", 3), SP>> \o Lower(topic)
        \o <<SP, Words("reveals significant ... value creation.", 24)>>,
     key_points |->
        << <<Words("Market adoption of", 3), SP>> \o Lower(topic)
              \o <<SP, Words("technologies accelerating 45% faster than predicted", 6)>>,
           <<Words("Regulatory environment increasingly supportive with new frameworks", 7)>>,
           <<Words("Supply chain optimization creating 30-35% cost reduction opportunities", 8)>>,
           <<Words("Consumer trust metrics showing 82% positive sentiment", 7)>>,
           <<Words("Investment surge with $3.8B in new funding across sector", 9)>> >>,
     keywords |-> << Lower(topic), Str("innovation") >>,
     research_confidence |-> 926,
     methodology |-> <<Words("Multi-source analysis with AI-powered synthesis", 5)>>]

Mut_provider_research_content(topic) ==
    [Mut_get_enhanced_research_content(topic) EXCEPT
        !.title = <<Atom("Strategic"), SP, Atom("Analysis:"), SP>> \o topic,
        !.methodology = IF provider = SIMULATION
                        THEN <<Words("Multi-source analysis with AI-powered synthesis", 5)>>
                        ELSE <<Words("Multi-source analysis", 2)>>]

\* research_confidence is kept in thousandths: 0.926 is 926.
get_enhanced_research_content(topic) ==
    [title |-> <<Atom("Strategic"), SP, Atom("Analysis:"), SP>> \o topic,
     executive_summary |->
        <<Words("Comprehensive analysis of", 3), SP>> \o topic
        \o <<SP, Words("reveals significant ... value creation.", 24)>>,
     key_points |->
        << <<Words("Market adoption of", 3), SP>> \o topic
              \o <<SP, Words("technologies accelerating 45% faster than predicted", 6)>>,
           <<Words("Regulatory environment increasingly supportive with new frameworks", 7)>>,
           <<Words("Supply chain optimization creating 30-35% cost reduction opportunities", 8)>>,
           <<Words("Consumer trust metrics showing 82% positive sentiment", 7)>>,
           <<Words("Investment surge with $3.8B in new funding across sector", 9)>> >>,
     keywords |->
        << Lower(topic),
           Str("innovation"),
           <<Words("market growth", 2)>>,
           Str("technology"),
           <<Words("digital transformation", 2)>>,
           <<Words("strategic analysis", 2)>> >>,
     research_confidence |-> 926,
     methodology |-> <<Words("Multi-source analysis with AI-powered synthesis", 5)>>]

WritingBriefKeys == {"title", "executive_summary", "key_points"}

\* get_enhanced_writing_content(brief) raises KeyError on a brief that lacks
\* one of the three entries it reads.
writing_content_raises(brief) == ~HasKeys(brief, WritingBriefKeys)

get_enhanced_writing_content(brief) ==
    <<SP, Atom("<h1>")>> \o brief.title
    \o <<Words("</h1> <div class=executive-summary> <p>", 4)>>
    \o brief.executive_summary
    \o <<Words("</p> </div> <h2>Key Strategic Insights</h2> ... <ul>", 8), SP>>
    \o Concat([i \in 1..Len(brief.key_points) |->
                 <<Atom("<li>")>> \o brief.key_points[i] \o <<Atom("</li>")>>])
    \o <<SP, Words("</ul> </div> <h2>Detailed Analysis</h2> ... environment.</p>", 153), SP>>

---------------------------------------------------------------------------
(* The demo pipeline: messages and the run's bookkeeping *)

Stages == {"research", "writer", "image"}

SimLabel == "Enhanced Simulation"

\* datetime.now() after an await has ended: the clock has moved on.
Later == IF clock < MaxClock THEN clock + 1 ELSE clock

Message(content, media_type, model_used, now) ==
    [content |-> content, media_type |-> media_type,
     timestamp |-> now, model_used |-> model_used]

\* A process call of the orchestrator.  now is what datetime.now() gives in
\* the code the call is running.  Results are lists of zero or one Message.  log, calls, templates, path, startMode, writer_input and
\* image_input record what the call did: the stage events in order, the
\* external API calls and the templater calls made per stage, the branch that
\* produced each stage's content ("real", "sim", "fallback"), the
\* capability's mode when the stage started, and the content each later stage
\* was handed.
NewRun(topic) ==
    [pc |-> "start", topic |-> topic, now |-> clock,
     research_result |-> <<>>, writer_result |-> <<>>, image_result |-> <<>>,
     final |-> <<>>, error |-> "",
     log |-> <<>>,
     calls |-> [st \in Stages |-> 0],
     templates |-> [st \in Stages |-> 0],
     path |-> [st \in Stages |-> ""],
     startMode |-> [st \in Stages |-> ""],
     writer_input |-> <<>>, image_input |-> <<>>]

IdleRun == [NewRun(<<>>) EXCEPT !.pc = "idle"]

Raise(r, exc) == [r EXCEPT !.pc = "raised", !.error = exc]

Logged(r, event) == [r EXCEPT !.log = Append(@, event)]

\* The stage calls its templater.
Templated(r, stage) == [r EXCEPT !.templates[stage] = @ + 1]

ModeOf(config) == IF config.simulation_mode THEN "sim" ELSE "real"

\* self.model_config.get("model", "o4-mini-2025-04-16")
ModelOrDefault(config, default) ==
    IF config.model = NoModel THEN default ELSE config.model

Mut_TakesRealBranch(config) == has_valid_api_key(OPENAI)

Mut_provider_TakesRealBranch(config) ==
    ~config.simulation_mode /\ has_valid_api_key(provider)

\* `not simulation_mode and ai_config.has_valid_api_key(AIProvider.OPENAI)`
TakesRealBranch(config) == ~config.simulation_mode /\ has_valid_api_key(OPENAI)

---------------------------------------------------------------------------
(* The demo pipeline: what the external API may answer *)

\* The research object a model returns when it follows the prompt.
AIBrief ==
    [title |-> <<Words("AI analysis title", 3)>>,
     executive_summary |-> <<Words("AI overview", 40)>>,
     key_points |-> << <<Words("AI insight 1", 9)>>, <<Words("AI insight 2", 9)>>,
                       <<Words("AI insight 3", 9)>>, <<Words("AI insight 4", 9)>> >>,
     keywords |-> <<Str("ai-keyword"), Str("ai-trend")>>,
     research_confidence |-> 870,
     methodology |-> <<Words("AI methodology", 6)>>]

BriefKeys == DOMAIN AIBrief

\* The keys of the JSON objects a reply may hold: all six, or all but one.
BriefKeySets == {BriefKeys} \cup {BriefKeys \ {k} : k \in BriefKeys}

\* How the chat completion call of the research stage ends: it raises, its
\* message content is not JSON (empty or any other text, or None), it is JSON
\* but no object, or it is a JSON object.
ResearchReplyKinds == {"raise", "text", "scalar", "object"}

\* How the chat completion call of the writer stage ends: it raises, its
\* message content is None, or it is a text (of no, few or many words).
WriterReplyKinds == {"raise", "none", "empty", "short", "article"}

DemoWriterReplyKinds == WriterReplyKinds \ {"short"}

ArticleOf(kind) ==
    IF kind = "empty" THEN <<>>
    ELSE IF kind = "short" THEN <<Words("<p>AI paragraph</p>", 99)>>
    ELSE <<Words("<h1>AI article</h1> ...", 450)>>

\* How the image call ends: it raises, its data list is empty, or it holds
\* one image.
ImageReplyKinds == {"raise", "empty", "image"}

---------------------------------------------------------------------------
(* The demo pipeline: ImageAgent and the assembly *)

\* hashlib.md5(text.encode()).hexdigest()[:12], taken as injective.
Md5Hex12(text) == Atom("md5:" \o ToString(text))

Mut_generate_simulation_image(keywords) ==
    LET keyword_text == Join(keywords, <<SP>>) IN
    [image_url |-> <<Atom("https://picsum.photos/seed/"), Md5Hex12(keyword_text),
                     Atom("/800/400")>>,
     alt_text |-> <<Words("Professional illustration representing", 3), SP>>
                  \o keyword_text,
     dimensions |-> "800x400",
     format |-> "JPEG",
     generation_method |-> "Procedural (DALL-E 3 Ready)"]

generate_simulation_image(keywords) ==
    LET keyword_text == Join(Take(keywords, 3), <<SP>>) IN
    [image_url |-> <<Atom("https://picsum.photos/seed/"), Md5Hex12(keyword_text),
                     Atom("/800/400")>>,
     alt_text |-> <<Words("Professional illustration representing", 3), SP>>
                  \o keyword_text,
     dimensions |-> "800x400",
     format |-> "JPEG",
     generation_method |-> "Procedural (DALL-E 3 Ready)"]

ImagePrompt(keywords) ==
    <<Words("Professional, modern illustration representing", 4), SP>>
    \o Join(Take(keywords, 3), <<Atom(","), SP>>)
    \o <<Words(", suitable for business article header, clean design, high quality", 10)>>

\* The result ImageAgent._call_real_ai builds from a reply that holds an image.
RealImage(keywords) ==
    [image_url |-> Str("https://images.openai.example/generated.png"),
     alt_text |-> <<Words("AI-generated illustration:", 2), SP>> \o ImagePrompt(keywords),
     dimensions |-> "1024x1024",
     format |-> "PNG",
     generation_method |-> "OpenAI DALL-E 3"]

LabelText(label) == IF label = SimLabel THEN <<Words(label, 2)>> ELSE Str(label)

\* f"{research_confidence*100:.1f}"
FormatPct(c) == Atom(ToString(c \div 10) \o "." \o ToString(c % 10))

\* now.strftime('%Y-%m-%d %H:%M:%S')
FormatTime(now) == <<Atom("2025-01-01"), SP, Atom("00:00:0" \o ToString(now))>>

HtmlKeywordsHead == Words("</p> <p><strong>Keywords:</strong>", 2)
HtmlTail == Words("</p> </footer> </body> </html>", 4)
HtmlResearchLabel == Words("class=header-image> ... <li>Research Analysis:", 19)
HtmlWriterLabel == Words("</li> <li>Content Generation:", 3)
HtmlImageLabel == Words("</li> <li>Image Creation:", 3)
HtmlAfterLabels == Words("</li> </ul> <p>Content Quality Score:", 5)

HtmlResearchKeys ==
    {"title", "research_confidence", "executive_summary", "key_points",
     "methodology", "keywords"}

\* _create_enhanced_html raises KeyError unless the research content has
\* every entry the template reads.
create_enhanced_html_raises(research_result) ==
    ~HasKeys(research_result.content, HtmlResearchKeys)

create_enhanced_html(research_result, writer_result, image_result, now) ==
    LET research == research_result.content IN
    <<SP, Words("<!DOCTYPE html> ... <title>", 12)>>
    \o research.title
    \o <<Words("</title> <style> ... <img src=", 132)>>
    \o image_result.content.image_url
    \o <<Words("alt=", 2)>>
    \o image_result.content.alt_text
    \o <<HtmlResearchLabel, SP>> \o LabelText(research_result.model_used)
    \o <<HtmlWriterLabel, SP>> \o LabelText(writer_result.model_used)
    \o <<HtmlImageLabel, SP>> \o LabelText(image_result.model_used)
    \o <<HtmlAfterLabels, SP, FormatPct(research.research_confidence)>>
    \o <<Words("%</p> </div> <div class=content> <h1>", 5)>>
    \o research.title
    \o <<Words("</h1> <div class=executive-summary> <p>", 4)>>
    \o research.executive_summary
    \o <<Words("</p> </div> <div class=key-points> <h2>Key Insights</h2> <ul>", 7), SP>>
    \o Concat([i \in 1..Len(research.key_points) |->
                 <<Atom("<li>")>> \o research.key_points[i] \o <<Atom("</li>")>>])
    \o <<SP, Words("</ul> </div>", 2), SP>>
    \o writer_result.content.article_text
    \o <<SP, Words("<div class=methodology> <p><strong>Research Methodology:</strong>", 4), SP>>
    \o research.methodology
    \o <<Words("</p> </div> <footer class=ai-attribution> <p><strong>Generated:</strong>", 6), SP>>
    \o FormatTime(now)
    \o <<HtmlKeywordsHead, SP>>
    \o Join(research.keywords, <<Atom(","), SP>>)
    \o <<HtmlTail, SP>>

\* OrchestratorAgent.process, step 4: the assembly, the display of the results
\* and the returned Message.
Assemble(r0) ==
    LET r == Logged(r0, "assembly") IN
    IF create_enhanced_html_raises(r.research_result[1])
    THEN Raise(r, "KeyError")
    ELSE [r EXCEPT
            !.pc = "done",
            !.final = <<Message(create_enhanced_html(r.research_result[1],
                                                      r.writer_result[1],
                                                      r.image_result[1], r.now),
                                "text/html", "Orchestrator", r.now)>>]

\* ImageAgent.process from the point where the content and its label are
\* known to its return, and the orchestrator up to its own return.
ImageFinish(r, result, model_used, branch) ==
    Assemble(Logged([r EXCEPT
        !.image_result = <<Message(result, "application/json", model_used, r.now)>>,
        !.path["image"] = branch], "image.return"))

\* The Message the orchestrator hands to the image agent.
OrchImageInput(writer_result) ==
    [keywords |-> writer_result.content.keywords]

\* OrchestratorAgent.process, step 3, and ImageAgent.process up to its first
\* await.  With no client the call inside the try block raises
\* AttributeError and the handler falls back.
ImageBegin(r0) ==
    LET input == OrchImageInput(r0.writer_result[1])
        r == Logged([r0 EXCEPT !.image_input = <<input>>,
                               !.startMode["image"] = ModeOf(image_config)],
                    "image.start")
    IN IF TakesRealBranch(image_config)
       THEN IF openai_client
            THEN [r EXCEPT !.pc = "image_api", !.calls["image"] = @ + 1]
            ELSE ImageFinish(Templated(r, "image"),
                             generate_simulation_image(input.keywords),
                             SimLabel, "fallback")
       ELSE [r EXCEPT !.pc = "image_sleep"]

---------------------------------------------------------------------------
(* The demo pipeline: WriterAgent and ResearchAgent *)

\* brief.get("keywords", [])
KeywordsOrEmpty(brief) ==
    IF "keywords" \in DOMAIN brief THEN brief.keywords ELSE <<>>

\* WriterAgent.process from the point where the article and its label are
\* known: the result dictionary (len(article_html.split()) raises
\* AttributeError on None), the returned Message, and on into step 3.
WriterFinish(r, is_none, article_html, model_used, branch) ==
    IF is_none THEN Raise(r, "AttributeError")
    ELSE LET result == [article_text |-> article_html,
                        keywords |-> KeywordsOrEmpty(r.writer_input[1]),
                        word_count |-> WordCount(article_html),
                        writing_style |-> "professional"]
         IN ImageBegin(Logged([r EXCEPT
                !.writer_result = <<Message(result, "application/json", model_used, r.now)>>,
                !.path["writer"] = branch], "writer.return"))

\* The templater call of WriterAgent.process; in the except handler and in
\* the simulation branch alike nothing catches what it raises.
WriterTemplate(r0, branch) ==
    LET r == Templated(r0, "writer") IN
    IF writing_content_raises(r.writer_input[1])
    THEN Raise(r, "KeyError")
    ELSE WriterFinish(r, FALSE, get_enhanced_writing_content(r.writer_input[1]),
                      SimLabel, branch)

\* OrchestratorAgent.process, step 2, and WriterAgent.process up to its first
\* await.  _call_real_ai builds its prompt from the brief and then uses the
\* client; a missing entry or a missing client raises inside the try block.
WriterBegin(r0) ==
    LET brief == r0.research_result[1].content
        r == Logged([r0 EXCEPT !.writer_input = <<brief>>,
                               !.startMode["writer"] = ModeOf(writing_config)],
                    "writer.start")
    IN IF TakesRealBranch(writing_config)
       THEN IF HasKeys(brief, WritingBriefKeys) /\ openai_client
            THEN [r EXCEPT !.pc = "writer_api", !.calls["writer"] = @ + 1]
            ELSE WriterTemplate(r, "fallback")
       ELSE [r EXCEPT !.pc = "writer_sleep"]

\* ResearchAgent.process from the point where the brief and its label are
\* known: the completion line formats brief['research_confidence'], outside
\* the try block; then the returned Message, and on into step 2.
ResearchFinish(r, is_object, brief, model_used, branch) ==
    IF ~is_object THEN Raise(r, "TypeError")
    ELSE IF "research_confidence" \notin DOMAIN brief THEN Raise(r, "KeyError")
    ELSE WriterBegin(Logged([r EXCEPT
            !.research_result = <<Message(brief, "application/json", model_used, r.now)>>,
            !.path["research"] = branch], "research.return"))

\* OrchestratorAgent.process, step 1, and ResearchAgent.process up to its
\* first await.
ResearchBegin(topic) ==
    LET r == Logged([NewRun(topic) EXCEPT
                        !.startMode["research"] = ModeOf(research_config)],
                    "research.start")
    IN IF TakesRealBranch(research_config)
       THEN IF openai_client
            THEN [r EXCEPT !.pc = "research_api", !.calls["research"] = @ + 1]
            ELSE ResearchFinish(Templated(r, "research"), TRUE,
                                get_enhanced_research_content(topic),
                                SimLabel, "fallback")
       ELSE [r EXCEPT !.pc = "research_sleep"]

---------------------------------------------------------------------------
(* The package agents: requests, responses and results *)

IsBlank(text) == Strip(text) = <<>>

\* message.get(key, default)
GetOr(message, key, default) ==
    IF key \in DOMAIN message THEN message[key] ELSE default

\* ResearchRequest(**message) passes validation.
ResearchRequestValid(message) ==
    /\ "topic" \in DOMAIN message
    /\ "depth" \in DOMAIN message => (message.depth >= 1 /\ message.depth <= 3)

ResearchRequest(message) ==
    [topic |-> message.topic, depth |-> GetOr(message, "depth", 1)]

\* WriterRequest(**message) passes validation.
WriterRequestValid(message) ==
    /\ {"title", "executive_summary", "key_points"} \subseteq DOMAIN message
    /\ ~IsBlank(message.title)
    /\ ~IsBlank(message.executive_summary)
    /\ Len(message.key_points) >= 1

WriterRequest(message) ==
    [title |-> Strip(message.title),
     executive_summary |-> Strip(message.executive_summary),
     key_points |-> message.key_points,
     keywords |-> GetOr(message, "keywords", <<>>),
     tone |-> GetOr(message, "tone", "professional")]

ValidSizes == {"1024x1024", "1024x1792", "1792x1024"}
ValidQualities == {"standard", "hd"}

\* ImageRequest(**message) passes validation.
ImageRequestValid(message) ==
    /\ "prompt" \in DOMAIN message
    /\ ~IsBlank(message.prompt)
    /\ GetOr(message, "size", "1024x1024") \in ValidSizes
    /\ GetOr(message, "quality", "standard") \in ValidQualities

ImageRequest(message) ==
    [prompt |-> Strip(message.prompt),
     style |-> GetOr(message, "style", "professional"),
     size |-> GetOr(message, "size", "1024x1024"),
     quality |-> GetOr(message, "quality", "standard")]

Mut_RequestValid(agent, message) ==
    IF agent = "research" THEN "topic" \in DOMAIN message
    ELSE IF agent = "writer" THEN WriterRequestValid(message)
    ELSE ImageRequestValid(message)

RequestValid(agent, message) ==
    IF agent = "research" THEN ResearchRequestValid(message)
    ELSE IF agent = "writer" THEN WriterRequestValid(message)
    ELSE ImageRequestValid(message)

RequestOf(agent, message) ==
    IF agent = "research" THEN ResearchRequest(message)
    ELSE IF agent = "writer" THEN WriterRequest(message)
    ELSE ImageRequest(message)

AgentError(agent) ==
    IF agent = "research" THEN "ResearchAgentError"
    ELSE IF agent = "writer" THEN "WriterAgentError"
    ELSE "ImageAgentError"

\* ResearchResponse(**result) passes validation.
ResearchResponseValid(result) ==
    /\ HasKeys(result, BriefKeys)
    /\ Len(result.key_points) >= 3
    /\ Len(result.keywords) >= 1
    /\ result.research_confidence >= 0
    /\ result.research_confidence <= 1000

MinWordCount == 100

Mut_WriterResponseValid(word_count) == word_count >= MinWordCount - 1

\* WriterResponse(...) passes validation.
WriterResponseValid(word_count) == word_count >= MinWordCount

\* A research object that has every key and breaks one constraint of
\* ResearchResponse, or none.
BriefVariants == {"ok", "few_points", "no_keywords", "confidence_high"}

BriefVariant(variant) ==
    IF variant = "few_points" THEN [AIBrief EXCEPT !.key_points = Take(@, 2)]
    ELSE IF variant = "no_keywords" THEN [AIBrief EXCEPT !.keywords = <<>>]
    ELSE IF variant = "confidence_high" THEN [AIBrief EXCEPT !.research_confidence = 1500]
    ELSE AIBrief

\* What ResearchAgent._call_real_ai makes of the call's end: the failure
\* ("" for none: "api", "parse" or "shape") and the validated result.
ResearchCallResult(kind, object) ==
    IF kind = "raise" THEN [fail |-> "api", result |-> <<>>]
    ELSE IF kind = "text" THEN [fail |-> "parse", result |-> <<>>]
    ELSE IF kind = "scalar" THEN [fail |-> "shape", result |-> <<>>]
    ELSE IF ~ResearchResponseValid(object) THEN [fail |-> "shape", result |-> <<>>]
    ELSE [fail |-> "", result |-> <<Restrict(object, BriefKeys)>>]

WriterResult(request, article_html) ==
    [article_text |-> article_html,
     keywords |-> request.keywords,
     word_count |-> WordCount(article_html),
     writing_style |-> request.tone]

\* The try block of WriterAgent.process after the call's end: a None content
\* has no split(), and WriterResponse validates the word count.
WriterCallResult(kind, request) ==
    IF kind = "raise" THEN [fail |-> "api", result |-> <<>>]
    ELSE IF kind = "none" THEN [fail |-> "parse", result |-> <<>>]
    ELSE IF ~WriterResponseValid(WordCount(ArticleOf(kind)))
         THEN [fail |-> "shape", result |-> <<>>]
    ELSE [fail |-> "", result |-> <<WriterResult(request, ArticleOf(kind))>>]

ImageResult(request, image_data) ==
    [image_data |-> image_data,
     prompt_used |-> request.prompt,
     style_used |-> request.style,
     dimensions |-> request.size]

\* The package's image call may also end with an image whose b64_json is None.
PkgImageReplyKinds == ImageReplyKinds \cup {"none"}

\* The try block of ImageAgent.process after the call's end.
ImageCallResult(kind, request) ==
    IF kind = "raise" THEN [fail |-> "api", result |-> <<>>]
    ELSE IF kind = "empty" THEN [fail |-> "parse", result |-> <<>>]
    ELSE IF kind = "none" THEN [fail |-> "shape", result |-> <<>>]
    ELSE [fail |-> "", result |-> <<ImageResult(request, "BASE64_IMAGE_DATA")>>]

\* The simulation path of each agent's process, after its sleep.
SimulationResult(agent, request) ==
    IF agent = "research" THEN get_enhanced_research_content(request.topic)
    ELSE IF agent = "writer"
         THEN WriterResult(request, get_enhanced_writing_content(request))
    ELSE ImageResult(request, "SIMULATED_IMAGE_DATA")

Mut_SimulationRaises(agent, request) == agent = "image"

\* The simulation path raises when its own result fails validation.
SimulationRaises(agent, request) ==
    /\ agent = "writer"
    /\ ~WriterResponseValid(WordCount(get_enhanced_writing_content(request)))

ConfigOf(agent) ==
    IF agent = "research" THEN research_config
    ELSE IF agent = "writer" THEN writing_config
    ELSE image_config

\* A process call of a package agent.  message, request and result are lists
\* of zero or one value.  calls, inits and templates count the external API
\* calls, the client initialisations and the templater calls of the call; fail
\* is the failure of its real path, startMode the capability's mode when it
\* started, path the branch that produced the result.
NewCall(agent, message) ==
    [agent |-> agent, pc |-> "start", message |-> <<message>>,
     request |-> <<>>, result |-> <<>>, error |-> "",
     calls |-> 0, inits |-> 0, templates |-> 0,
     fail |-> "", startMode |-> "", path |-> ""]

IdleCall == [NewCall("", <<>>) EXCEPT !.pc = "idle", !.message = <<>>]

---------------------------------------------------------------------------
(* AIConfig *)

NoCall == [provider |-> SIMULATION, outcome |-> "none"]

InitConfig ==
    /\ provider = SIMULATION
    /\ api_keys \in [KeyProviders -> KeyChoices]
    /\ \E m \in ChatModelChoices : research_config = DefaultConfig(m)
    /\ \E m \in ChatModelChoices : writing_config = DefaultConfig(m)
    /\ \E m \in ImageModelChoices : image_config = DefaultConfig(m)
    /\ validate_configs(research_config, writing_config, image_config) = ""
    /\ lastEnable = NoCall
    /\ program = "config"
    /\ clock = 0
    /\ openai_client = FALSE
    /\ run = IdleRun
    /\ clients = [a \in Stages |-> FALSE]
    /\ call = IdleCall
    /\ trials = <<>>
    /\ peer = IdleRun

Mut_Real(config) == config

Real(config) == [config EXCEPT !.simulation_mode = FALSE]

Mut_enable_real_ai(p) ==
    IF ~has_valid_api_key(p)
    THEN /\ lastEnable' = [provider |-> p, outcome |-> "InvalidAPIKeyError"]
         /\ provider' = p
         /\ research_config' = Real(research_config)
         /\ UNCHANGED <<api_keys, writing_config, image_config>>
    ELSE /\ provider' = p
         /\ research_config' = Real(research_config)
         /\ writing_config' = Real(writing_config)
         /\ image_config' = Real(image_config)
         /\ UNCHANGED api_keys
         /\ LET err == validate_configs(research_config', writing_config', image_config') IN
            lastEnable' = [provider |-> p, outcome |-> IF err = "" THEN "ok" ELSE err]

Mut_staged_enable_real_ai(p) ==
    IF ~has_valid_api_key(p)
    THEN /\ lastEnable' = [provider |-> p, outcome |-> "InvalidAPIKeyError"]
         /\ UNCHANGED cfgVars
    ELSE LET err == validate_configs(Real(research_config), Real(writing_config),
                                     Real(image_config))
         IN /\ provider' = p
            /\ research_config' = Real(research_config)
            /\ IF err = ""
               THEN /\ writing_config' = Real(writing_config)
                    /\ image_config' = Real(image_config)
               ELSE UNCHANGED <<writing_config, image_config>>
            /\ UNCHANGED api_keys
            /\ lastEnable' = [provider |-> p, outcome |-> IF err = "" THEN "ok" ELSE err]

enable_real_ai(p) ==
    IF ~has_valid_api_key(p)
    THEN /\ lastEnable' = [provider |-> p, outcome |-> "InvalidAPIKeyError"]
         /\ UNCHANGED cfgVars
    ELSE /\ provider' = p
         /\ research_config' = Real(research_config)
         /\ writing_config' = Real(writing_config)
         /\ image_config' = Real(image_config)
         /\ UNCHANGED api_keys
         /\ LET err == validate_configs(research_config', writing_config', image_config') IN
            lastEnable' = [provider |-> p, outcome |-> IF err = "" THEN "ok" ELSE err]

\* The providers enable_real_ai is called with.
EnableChoices == IF program = "config" THEN AIProvider ELSE {OPENAI, ANTHROPIC}

EnableRealAI ==
    /\ \E p \in EnableChoices : enable_real_ai(p)
    /\ UNCHANGED <<program, clock, openai_client, run, clients, call, trials, peer>>

NextConfig == EnableRealAI

---------------------------------------------------------------------------
(* The demo pipeline: the process *)

TopicChars == {Atom("E"), SP}

Topics == UNION {[1..n -> TopicChars] : n \in 0..MaxTopicLen}

\* A key that passes the format check of every provider.
GoodKey == MakeKey(SK_ANT, MinKeyLen)

\* The models the demo is configured with: the defaults of __init__, and the
\* other supported ones.
DemoModelChoices ==
    {<<"gpt-4-1106-preview", "gpt-4-1106-preview", "dall-e-3">>,
     <<"gpt-4", "gpt-3.5-turbo", "dall-e-2">>}

InitDemo ==
    /\ provider = SIMULATION
    /\ \E k \in {NoKey, MakeKey(PLAIN, MinKeyLen), GoodKey} :
          api_keys = [p \in KeyProviders |->
                        IF p = OPENAI THEN k ELSE IF p = ANTHROPIC THEN GoodKey ELSE NoKey]
    /\ \E m \in DemoModelChoices :
          /\ research_config = DefaultConfig(m[1])
          /\ writing_config = DefaultConfig(m[2])
          /\ image_config = DefaultConfig(m[3])
    /\ lastEnable = NoCall
    /\ program = "demo"
    /\ clock = 0
    /\ openai_client = FALSE
    /\ run = IdleRun
    /\ clients = [a \in Stages |-> FALSE]
    /\ call = IdleCall
    /\ trials = <<>>
    /\ peer = IdleRun

demoOther == <<provider, api_keys, research_config, writing_config, image_config,
               lastEnable, program, openai_client, clients, call, trials, peer>>

\* The run as it resumes from an await.
Resumed == [run EXCEPT !.now = Later]

\* The call r0 as it leaves the asyncio.sleep of a simulation branch: the
\* stage's templater, its return, and the call up to its next await or its
\* end.
SleepOver(r0) ==
    LET r == [r0 EXCEPT !.now = Later] IN
    IF r0.pc = "research_sleep"
    THEN ResearchFinish(Templated(r, "research"), TRUE,
                        get_enhanced_research_content(r0.topic),
                        SimLabel, "sim")
    ELSE IF r0.pc = "writer_sleep"
    THEN WriterTemplate(r, "sim")
    ELSE ImageFinish(Templated(r, "image"),
                     generate_simulation_image(r0.image_input[1].keywords),
                     SimLabel, "sim")

\* init_openai_client(); AsyncOpenAI raises when it is given no key.
InitOpenAIClient ==
    /\ program \in {"demo", "runs"}
    /\ api_keys[OPENAI] # NoKey
    /\ openai_client' = TRUE
    /\ UNCHANGED <<provider, api_keys, research_config, writing_config,
                   image_config, lastEnable, program, clock, run, clients, call,
                   trials, peer>>

\* orchestrator.process(topic) is called.
OrchStart ==
    /\ program \in {"demo", "runs"}
    /\ run.pc \in {"idle", "done", "raised"}
    /\ \E topic \in Topics : run' = ResearchBegin(topic)
    /\ UNCHANGED clock
    /\ UNCHANGED demoOther

\* The research stage's chat completion call ends.
ResearchApiReturn ==
    /\ run.pc = "research_api"
    /\ \E kind \in ResearchReplyKinds, keys \in BriefKeySets :
        /\ kind # "object" => keys = BriefKeys
        /\ run' =
            IF kind \in {"raise", "text"}
            THEN ResearchFinish(Templated(Resumed, "research"), TRUE,
                                get_enhanced_research_content(run.topic),
                                SimLabel, "fallback")
            ELSE ResearchFinish(Resumed, kind = "object", Restrict(AIBrief, IF kind = "object" THEN keys ELSE {}),
                                ModelOrDefault(research_config, "o4-mini-2025-04-16"),
                                "real")
    /\ clock' = Later
    /\ UNCHANGED demoOther

\* asyncio.sleep(0.5) of the research stage's simulation branch ends.
ResearchSleepDone ==
    /\ run.pc = "research_sleep"
    /\ run' = SleepOver(run)
    /\ clock' = Later
    /\ UNCHANGED demoOther

\* The writer stage's chat completion call ends.
WriterApiReturn ==
    /\ run.pc = "writer_api"
    /\ \E kind \in DemoWriterReplyKinds :
        run' = IF kind = "raise"
               THEN WriterTemplate(Resumed, "fallback")
               ELSE WriterFinish(Resumed, kind = "none", ArticleOf(kind),
                                 ModelOrDefault(writing_config, "o4-mini-2025-04-16"),
                                 "real")
    /\ clock' = Later
    /\ UNCHANGED demoOther

Mut_WriterSleepDone ==
    /\ run.pc = "writer_sleep"
    /\ run' = [run EXCEPT !.pc = "research_sleep"]
    /\ clock' = Later
    /\ UNCHANGED demoOther

\* asyncio.sleep(0.7) of the writer stage's simulation branch ends.
WriterSleepDone ==
    /\ run.pc = "writer_sleep"
    /\ run' = SleepOver(run)
    /\ clock' = Later
    /\ UNCHANGED demoOther

\* The image stage's generation call ends.
ImageApiReturn ==
    /\ run.pc = "image_api"
    /\ \E kind \in ImageReplyKinds :
        run' = IF kind = "image"
               THEN ImageFinish(Resumed, RealImage(run.image_input[1].keywords),
                                "dall-e-3", "real")
               ELSE ImageFinish(Templated(Resumed, "image"),
                                generate_simulation_image(run.image_input[1].keywords),
                                SimLabel, "fallback")
    /\ clock' = Later
    /\ UNCHANGED demoOther

\* asyncio.sleep(0.3) of the image stage's simulation branch ends.
ImageSleepDone ==
    /\ run.pc = "image_sleep"
    /\ run' = SleepOver(run)
    /\ clock' = Later
    /\ UNCHANGED demoOther

NextDemo ==
    \/ EnableRealAI
    \/ InitOpenAIClient
    \/ OrchStart
    \/ ResearchApiReturn
    \/ ResearchSleepDone
    \/ WriterApiReturn
    \/ WriterSleepDone
    \/ ImageApiReturn
    \/ ImageSleepDone

SpecDemo == InitDemo /\ [][NextDemo]_vars

\* The event loop resumes a coroutine once what it awaits is over: a sleep
\* ends, and an API call returns or fails.  Every conjunct is the weak
\* fairness of the step that ends one await.  For the research and the
\* writer stage it is written out, WF_vars(step) being
\* []<>~ENABLED <<step>>_vars \/ []<><<step>>_vars: the step is enabled
\* exactly while the call waits at that await and always changes the call.
FairDemo ==
    /\ []<>(run.pc # "research_api") \/ []<><<ResearchApiReturn>>_vars
    /\ []<>(run.pc # "research_sleep") \/ []<><<ResearchSleepDone>>_vars
    /\ []<>(run.pc # "writer_api") \/ []<><<WriterApiReturn>>_vars
    /\ []<>(run.pc # "writer_sleep") \/ []<><<WriterSleepDone>>_vars
    /\ WF_vars(ImageApiReturn)
    /\ WF_vars(ImageSleepDone)

SpecDemoFair == SpecDemo /\ FairDemo

---------------------------------------------------------------------------
(* The demo pipeline: two calls of the orchestrator in one event loop, under *)
(* a configuration that nothing changes                                     *)

InitRuns ==
    /\ provider = SIMULATION
    /\ \E k \in {NoKey, MakeKey(PLAIN, MinKeyLen), GoodKey} :
          api_keys = [p \in KeyProviders |->
                        IF p = OPENAI THEN k ELSE IF p = ANTHROPIC THEN GoodKey ELSE NoKey]
    /\ \E m \in DemoModelChoices :
          /\ research_config = DefaultConfig(m[1])
          /\ writing_config = DefaultConfig(m[2])
          /\ image_config = DefaultConfig(m[3])
    /\ lastEnable = NoCall
    /\ program = "runs"
    /\ clock = 0
    /\ openai_client = FALSE
    /\ run = IdleRun
    /\ clients = [a \in Stages |-> FALSE]
    /\ call = IdleCall
    /\ trials = <<>>
    /\ peer = IdleRun

\* orchestrator.process(topic) is called while the other call is idle or
\* suspended.
PeerStart ==
    /\ program = "runs"
    /\ peer.pc \in {"idle", "done", "raised"}
    /\ \E topic \in Topics : peer' = ResearchBegin(topic)
    /\ UNCHANGED <<provider, api_keys, research_config, writing_config,
                   image_config, lastEnable, program, clock, openai_client, run,
                   clients, call, trials>>

Mut_PeerSleepDone ==
    /\ peer.pc \in {"research_sleep", "writer_sleep", "image_sleep"}
    /\ peer' = LET r == SleepOver(peer) IN
               IF peer.pc = "image_sleep" /\ run.image_result # <<>>
               THEN [r EXCEPT !.image_result = run.image_result]
               ELSE r
    /\ clock' = Later
    /\ UNCHANGED <<provider, api_keys, research_config, writing_config,
                   image_config, lastEnable, program, openai_client, run,
                   clients, call, trials>>

\* The asyncio.sleep that the second call is suspended in ends.
PeerSleepDone ==
    /\ peer.pc \in {"research_sleep", "writer_sleep", "image_sleep"}
    /\ peer' = SleepOver(peer)
    /\ clock' = Later
    /\ UNCHANGED <<provider, api_keys, research_config, writing_config,
                   image_config, lastEnable, program, openai_client, run,
                   clients, call, trials>>

NextRuns ==
    \/ InitOpenAIClient
    \/ OrchStart
    \/ ResearchSleepDone
    \/ WriterSleepDone
    \/ ImageSleepDone
    \/ PeerStart
    \/ PeerSleepDone

SpecRuns == InitRuns /\ [][NextRuns]_vars

---------------------------------------------------------------------------
(* The package agents: the process *)

InitPkg ==
    /\ provider = SIMULATION
    /\ \E k \in {NoKey, MakeKey(PLAIN, MinKeyLen), GoodKey} :
          api_keys = [p \in KeyProviders |->
                        IF p = OPENAI THEN k ELSE IF p = ANTHROPIC THEN GoodKey ELSE NoKey]
    /\ research_config = DefaultConfig("gpt-4-1106-preview")
    /\ writing_config = DefaultConfig("gpt-4-1106-preview")
    /\ image_config = DefaultConfig("dall-e-3")
    /\ lastEnable = NoCall
    /\ program = "package"
    /\ clock = 0
    /\ openai_client = FALSE
    /\ run = IdleRun
    /\ clients = [a \in Stages |-> FALSE]
    /\ call = IdleCall
    /\ trials = <<>>
    /\ peer = IdleRun

pkgOther == <<provider, api_keys, research_config, writing_config, image_config,
              lastEnable, program, clock, openai_client, run, trials, peer>>

\* agent.process(message) up to its first await: the request's validation,
\* then either the real path (client initialisation, which may fail, and the
\* API call, made only with a client) or the sleep of the simulation path.
PkgBegin(agent, message, init_ok) ==
    LET c == NewCall(agent, message)
        config == ConfigOf(agent)
        needs_init == ~clients[agent] /\ has_valid_api_key(OPENAI)
    IN
    /\ program = "package"
    /\ call.pc = "idle"
    /\ IF ~RequestValid(agent, message)
       THEN /\ call' = [c EXCEPT !.pc = "raised", !.error = AgentError(agent)]
            /\ init_ok
            /\ UNCHANGED clients
       ELSE LET r == [c EXCEPT !.request = <<RequestOf(agent, message)>>,
                               !.startMode = ModeOf(config)]
            IN IF config.simulation_mode
               THEN /\ call' = [r EXCEPT !.pc = "sleep"]
                    /\ init_ok
                    /\ UNCHANGED clients
               ELSE IF needs_init /\ ~init_ok
               THEN /\ call' = [r EXCEPT !.pc = "sleep", !.inits = 1, !.fail = "init"]
                    /\ UNCHANGED clients
               ELSE /\ init_ok
                    /\ clients' = [clients EXCEPT ![agent] = @ \/ needs_init]
                    /\ call' = IF clients'[agent]
                               THEN [r EXCEPT !.pc = "api", !.calls = 1,
                                              !.inits = IF needs_init THEN 1 ELSE 0]
                               ELSE [r EXCEPT !.pc = "sleep"]
    /\ UNCHANGED pkgOther

ResearchProcess ==
    \E topic \in Topics, depth \in {0, 1, 3, 4},
       keys \in {{"topic", "depth"}, {"topic"}, {"depth"}}, init_ok \in BOOLEAN :
        PkgBegin("research", Restrict([topic |-> topic, depth |-> depth], keys), init_ok)

WriterMessageKeys == {"title", "executive_summary", "key_points", "keywords", "tone"}

WriterProcess ==
    \E title \in Topics, summary \in {<<SP>>, <<SP, Words("brief overview", 2)>>},
       key_points \in {<<>>, <<Str("point")>>},
       keys \in {WriterMessageKeys, WriterMessageKeys \ {"title"},
                 WriterMessageKeys \ {"keywords", "tone"}},
       init_ok \in BOOLEAN :
        PkgBegin("writer",
                 Restrict([title |-> title, executive_summary |-> summary,
                           key_points |-> key_points, keywords |-> <<Str("kw")>>,
                           tone |-> "casual"], keys),
                 init_ok)

ImageMessageKeys == {"prompt", "style", "size", "quality"}

ImageProcess ==
    \E prompt \in Topics, size \in {"1024x1792", "512x512"}, quality \in {"hd", "low"},
       keys \in {ImageMessageKeys, {"prompt"}, ImageMessageKeys \ {"prompt"}},
       init_ok \in BOOLEAN :
        PkgBegin("image",
                 Restrict([prompt |-> prompt, style |-> "modern", size |-> size,
                           quality |-> quality], keys),
                 init_ok)

Mut_retry_PkgResume(outcome) ==
    /\ call' = IF outcome.fail = ""
               THEN [call EXCEPT !.pc = "returned", !.result = outcome.result,
                                 !.path = "real"]
               ELSE IF call.calls < 2
               THEN [call EXCEPT !.pc = "api", !.calls = @ + 1]
               ELSE [call EXCEPT !.pc = "sleep", !.fail = outcome.fail]
    /\ UNCHANGED <<provider, api_keys, research_config, writing_config, image_config,
                   lastEnable, program, clock, openai_client, run, clients, trials, peer>>

Mut_PkgResume(outcome) ==
    /\ call' = IF outcome.fail = ""
               THEN [call EXCEPT !.pc = "returned", !.result = outcome.result,
                                 !.path = "real"]
               ELSE [call EXCEPT !.pc = "sleep", !.fail = outcome.fail]
    /\ research_config' = IF outcome.fail = "" THEN research_config
                          ELSE [research_config EXCEPT !.simulation_mode = TRUE]
    /\ UNCHANGED <<provider, api_keys, writing_config, image_config, lastEnable,
                   program, clock, openai_client, run, clients, trials, peer>>

\* The awaited API call of the real path ends: the result is returned, or
\* the handler logs the failure and the call goes on to the simulation path.
PkgResume(outcome) ==
    /\ call' = IF outcome.fail = ""
               THEN [call EXCEPT !.pc = "returned", !.result = outcome.result,
                                 !.path = "real"]
               ELSE [call EXCEPT !.pc = "sleep", !.fail = outcome.fail]
    /\ UNCHANGED clients
    /\ UNCHANGED pkgOther

ResearchCallReturn ==
    /\ call.pc = "api" /\ call.agent = "research"
    /\ \E kind \in ResearchReplyKinds, keys \in BriefKeySets, variant \in BriefVariants :
        /\ kind # "object" => (keys = BriefKeys /\ variant = "ok")
        /\ keys # BriefKeys => variant = "ok"
        /\ PkgResume(ResearchCallResult(kind, Restrict(BriefVariant(variant), keys)))

WriterCallReturn ==
    /\ call.pc = "api" /\ call.agent = "writer"
    /\ \E kind \in WriterReplyKinds :
        PkgResume(WriterCallResult(kind, call.request[1]))

ImageCallReturn ==
    /\ call.pc = "api" /\ call.agent = "image"
    /\ \E kind \in PkgImageReplyKinds :
        PkgResume(ImageCallResult(kind, call.request[1]))

\* The sleep of the simulation path ends: the templated result is returned.
PkgSleepDone ==
    /\ call.pc = "sleep"
    /\ call' = IF SimulationRaises(call.agent, call.request[1])
               THEN [call EXCEPT !.pc = "raised", !.error = "ValidationError",
                                 !.templates = @ + 1]
               ELSE [call EXCEPT
                        !.pc = "returned",
                        !.result = <<SimulationResult(call.agent, call.request[1])>>,
                        !.templates = @ + 1,
                        !.path = IF call.startMode = "sim" THEN "sim" ELSE "fallback"]
    /\ UNCHANGED clients
    /\ UNCHANGED pkgOther

\* process has returned or raised, and its caller has taken what it gave.
PkgCallOver ==
    /\ call.pc \in {"returned", "raised"}
    /\ call' = IdleCall
    /\ UNCHANGED clients
    /\ UNCHANGED pkgOther

NextPkg ==
    \/ EnableRealAI
    \/ PkgCallOver
    \/ ResearchProcess
    \/ WriterProcess
    \/ ImageProcess
    \/ ResearchCallReturn
    \/ WriterCallReturn
    \/ ImageCallReturn
    \/ PkgSleepDone

SpecPkg == InitPkg /\ [][NextPkg]_vars

---------------------------------------------------------------------------
(* Every agent: the process runs the demo or a caller of the package *)

Init == InitDemo \/ InitPkg

Next == NextDemo \/ NextPkg

Spec == Init /\ [][Next]_vars

SpecConfig == InitConfig /\ [][NextConfig]_vars

---------------------------------------------------------------------------
(* The templaters called directly, between changes of the configuration *)

\* Keywords with and without a blank inside.
KwA == Str("solar")
KwB == Str("power")
KwAB == <<Atom("solar"), SP, Atom("power")>>

\* The keyword lists the image templater is called with.
KeywordLists ==
    {<<>>, <<KwA>>, <<KwB>>, <<KwAB>>, <<KwA, KwB>>, <<KwB, KwA>>,
     <<KwA, KwB, KwA>>, <<KwA, KwB, KwA, KwA>>, <<KwA, KwB, KwA, KwB>>}

InitFn ==
    /\ provider = SIMULATION
    /\ \E k \in {NoKey, GoodKey} :
          api_keys = [p \in KeyProviders |->
                        IF p = OPENAI THEN k ELSE IF p = ANTHROPIC THEN GoodKey ELSE NoKey]
    /\ research_config = DefaultConfig("gpt-4-1106-preview")
    /\ writing_config = DefaultConfig("gpt-4-1106-preview")
    /\ image_config = DefaultConfig("dall-e-3")
    /\ lastEnable = NoCall
    /\ program = "functions"
    /\ clock = 0
    /\ openai_client = FALSE
    /\ run = IdleRun
    /\ clients = [a \in Stages |-> FALSE]
    /\ call = IdleCall
    /\ trials = <<>>
    /\ peer = IdleRun

\* A direct call: what was called, with what, what it returned, and the
\* provider the configuration named at the time.
Trial(fn, input, output) ==
    [fn |-> fn, input |-> input, output |-> output, provider |-> provider]

Tried(prog, trial) ==
    /\ program = prog
    /\ Len(trials) < MaxTrials
    /\ trials' = Append(trials, trial)
    /\ UNCHANGED <<provider, api_keys, research_config, writing_config, image_config,
                   lastEnable, program, clock, openai_client, run, clients, call,
                   peer>>

ResearchContentCall ==
    \E topic \in Topics :
        Tried("functions", Trial("research", topic, get_enhanced_research_content(topic)))

SimulationImageCall ==
    \E keywords \in KeywordLists :
        Tried("functions", Trial("image", keywords, generate_simulation_image(keywords)))

NextFn ==
    \/ EnableRealAI
    \/ ResearchContentCall
    \/ SimulationImageCall

SpecFn == InitFn /\ [][NextFn]_vars

---------------------------------------------------------------------------
(* The BMI endpoint (fastapi-mcp-demo/main.py) *)

\* A float parameter is m * 10^e with |m| < 1000.  Weights are given in
\* tenths of a kilogram and heights in hundredths of a metre, or far outside
\* that scale.
Num(m, e) == [m |-> m, e |-> e]

\* The decimal exponents of the largest double (1.8e308) and of the smallest
\* positive one (4.9e-324).
MaxExp10 == 308
MinExp10 == -324

\* height_m ** 2 in double arithmetic: float.__pow__ raises OverflowError
\* when the result is out of range and gives 0.0 when it underflows.
SquareOutcome(h) ==
    IF 2 * h.e > MaxExp10 THEN "OverflowError"
    ELSE IF 2 * (h.e + 3) < MinExp10 THEN "zero"
    ELSE "finite"

\* round(num / den, 2) in hundredths, for num and den the exact numerator
\* and denominator of the quotient in hundredths: the nearest hundredth, the
\* even one of two equally near.
Round2(num, den) ==
    LET q == num \div den
        r == num % den
    IN IF 2 * r > den \/ (2 * r = den /\ q % 2 = 1) THEN q + 1 ELSE q

BMIResponse(value, status) == [bmi |-> value, assessment |-> status]

\* The status code, the exception behind a 500 and the response body (a list
\* of zero or one BMIResponse; bmi is kept in hundredths).
Reply(status, error, response) ==
    [status |-> status, error |-> error, response |-> response]

Assessment(value) ==
    IF value < 1850 THEN "Underweight"
    ELSE IF value <= 2490 THEN "Normal weight"
    ELSE IF value <= 2990 THEN "Overweight"
    ELSE "Obesity"

\* GET /bmi?weight_kg=..&height_m=..: Query(gt=0) refuses a parameter that
\* is not positive before the handler runs.
bmi(weight_kg, height_m) ==
    IF weight_kg.m <= 0 \/ height_m.m <= 0
    THEN Reply(422, "", <<>>)
    ELSE IF SquareOutcome(height_m) = "OverflowError"
    THEN Reply(500, "OverflowError", <<>>)
    ELSE IF SquareOutcome(height_m) = "zero"
    THEN Reply(500, "ZeroDivisionError", <<>>)
    ELSE LET value == Round2(weight_kg.m * 100000, height_m.m * height_m.m)
         IN Reply(200, "", <<BMIResponse(value, Assessment(value))>>)

\* The weights asked for, in tenths of a kilogram.
Weights == {Num(m, -1) : m \in {-10, 0, 185, 249, 299, 300, 500, 705, 805}}

\* The heights asked for: hundredths of a metre, 1e-200 m and 1e200 m.
Heights ==
    {Num(m, -2) : m \in {-100, 0, 100, 160, 175, 180}} \cup {Num(1, -200), Num(1, 200)}

InitBmi ==
    /\ provider = SIMULATION
    /\ api_keys = [p \in KeyProviders |-> NoKey]
    /\ research_config = DefaultConfig("gpt-4-1106-preview")
    /\ writing_config = DefaultConfig("gpt-4-1106-preview")
    /\ image_config = DefaultConfig("dall-e-3")
    /\ lastEnable = NoCall
    /\ program = "bmi"
    /\ clock = 0
    /\ openai_client = FALSE
    /\ run = IdleRun
    /\ clients = [a \in Stages |-> FALSE]
    /\ call = IdleCall
    /\ trials = <<>>
    /\ peer = IdleRun

BmiRequest ==
    \E weight_kg \in Weights, height_m \in Heights :
        Tried("bmi", Trial("bmi", <<weight_kg, height_m>>, bmi(weight_kg, height_m)))

NextBmi == BmiRequest

SpecBmi == InitBmi /\ [][NextBmi]_vars

---------------------------------------------------------------------------
(* Claims about the agents and the demo pipeline *)

ResultOf(stage) ==
    IF stage = "research" THEN run.research_result
    ELSE IF stage = "writer" THEN run.writer_result
    ELSE run.image_result

\* C1: in the demo pipeline no outcome of an external call reaches the caller
\* of OrchestratorAgent.process as an exception: the run falls back to the
\* templater and returns a document.
C1_NoExternalOutcomeRaises == run.pc # "raised"

\* C2: a package agent's process, called with a valid request in real mode,
\* never raises because of the external call: after a failed client
\* initialisation, a raising call, an unparsable or an invalid response it
\* returns the simulation result.
C2_ExternalFailureFallsBack ==
    call.startMode = "real"
        => /\ call.pc # "raised"
           /\ (call.fail # "" /\ call.pc = "returned")
                => /\ call.result = <<SimulationResult(call.agent, call.request[1])>>
                   /\ call.path = "fallback"
           /\ call.fail # "" => call.pc \in {"sleep", "returned"}

C2_Witness ==
    /\ call.pc = "returned"
    /\ call.agent = "writer"
    /\ call.startMode = "real"
    /\ call.fail = "shape"
    /\ call.calls = 1

\* C7: in the demo pipeline each stage's model_used label is the capability's
\* configured model exactly when the external call produced the content, and
\* "Enhanced Simulation" exactly when the templater produced it.
C7_LabelNamesProducer ==
    \A stage \in Stages :
        Len(ResultOf(stage)) = 1
            => /\ run.path[stage] = "real"
                    <=> ResultOf(stage)[1].model_used = ConfigOf(stage).model
               /\ run.path[stage] \in {"sim", "fallback"}
                    <=> ResultOf(stage)[1].model_used = SimLabel

\* The templater output of a demo stage for the input the stage was given.
DemoTemplate(stage) ==
    IF stage = "research" THEN get_enhanced_research_content(run.topic)
    ELSE IF stage = "writer"
         THEN [article_text |-> get_enhanced_writing_content(run.writer_input[1]),
               keywords |-> KeywordsOrEmpty(run.writer_input[1]),
               word_count |-> WordCount(get_enhanced_writing_content(run.writer_input[1])),
               writing_style |-> "professional"]
    ELSE generate_simulation_image(run.image_input[1].keywords)

StageSuspended(stage) == run.pc \in {stage \o "_api", stage \o "_sleep"}

\* The run was ended by an exception raised inside this stage.
StageRaised(stage) ==
    /\ run.pc = "raised"
    /\ Len(run.log) > 0
    /\ run.log[Len(run.log)] = stage \o ".start"

\* C8: a process call of any agent, demo or package, that starts while its
\* capability is in simulation mode makes no external API call and returns
\* the templater output.  (A package call reaches the mode test with a
\* validated request.)
C8_SimulationMakesNoCall ==
    /\ \A stage \in Stages :
          run.startMode[stage] = "sim"
            => /\ run.calls[stage] = 0
               /\ ~StageRaised(stage)
               /\ ~StageSuspended(stage)
                    => /\ Len(ResultOf(stage)) = 1
                       /\ ResultOf(stage)[1].content = DemoTemplate(stage)
                       /\ ResultOf(stage)[1].model_used = SimLabel
    /\ call.startMode = "sim"
          => /\ call.calls = 0
             /\ call.pc \in {"sleep", "returned"}
             /\ call.pc = "returned"
                  => call.result = <<SimulationResult(call.agent, call.request[1])>>

\* A call that started in simulation mode returns the templater output
\* although real mode was enabled, with a usable key, while it slept.
C8_Witness ==
    /\ call.pc = "returned"
    /\ call.agent = "image"
    /\ call.startMode = "sim"
    /\ ~image_config.simulation_mode
    /\ has_valid_api_key(OPENAI)

CanonicalLog ==
    <<"research.start", "research.return", "writer.start", "writer.return",
      "image.start", "image.return", "assembly">>

IsPrefix(s, t) == Len(s) <= Len(t) /\ SubSeq(t, 1, Len(s)) = s

\* C9: in every run of OrchestratorAgent.process the stages occur in the
\* order research, writer, image, assembly, each exactly once; the writer
\* starts after research has returned and is given its result, the image
\* stage starts after the writer has returned and is given the writer
\* result's keywords, and assembly starts after all three have returned.
C9_StageOrder ==
    /\ IsPrefix(run.log, CanonicalLog)
    /\ run.pc \in {"done", "raised"} => run.log = CanonicalLog
    /\ StageSuspended("research") => run.log = SubSeq(CanonicalLog, 1, 1)
    /\ StageSuspended("writer") => run.log = SubSeq(CanonicalLog, 1, 3)
    /\ StageSuspended("image") => run.log = SubSeq(CanonicalLog, 1, 5)
    /\ Len(run.log) >= 3
          => /\ Len(run.research_result) = 1
             /\ run.writer_input = <<run.research_result[1].content>>
    /\ Len(run.log) >= 5
          => /\ Len(run.writer_result) = 1
             /\ run.image_input = <<[keywords |-> run.writer_result[1].content.keywords]>>
    /\ Len(run.log) >= 7 => Len(run.image_result) = 1

AllSimLabels ==
    <<HtmlResearchLabel, SP>> \o LabelText(SimLabel)
    \o <<HtmlWriterLabel, SP>> \o LabelText(SimLabel)
    \o <<HtmlImageLabel, SP>> \o LabelText(SimLabel)
    \o <<HtmlAfterLabels>>

UnderSimulation == \A stage \in Stages : run.startMode[stage] = "sim"

\* C10: under simulation mode OrchestratorAgent.process(topic) returns a
\* document that contains the topic as a literal substring, shows the three
\* model-used labels all equal to "Enhanced Simulation", and lists at least
\* one keyword.
C10_SimulationDocument ==
    (run.pc \in {"done", "raised"} /\ UnderSimulation)
        => /\ run.pc = "done"
           /\ Len(run.final) = 1
           /\ Contains(run.final[1].content, run.topic)
           /\ Contains(run.final[1].content, AllSimLabels)
           /\ Len(run.research_result[1].content.keywords) >= 1
           /\ Contains(run.final[1].content,
                       <<HtmlKeywordsHead, SP>>
                       \o Join(run.research_result[1].content.keywords, <<Atom(","), SP>>)
                       \o <<HtmlTail>>)

C10_Witness ==
    /\ run.pc = "done"
    /\ UnderSimulation
    /\ run.topic = <<Atom("E"), Atom("E")>>

---------------------------------------------------------------------------
(* Claims about the configuration holder *)

Called == lastEnable.outcome # "none"

\* The credential of provider p is missing or fails the format check, as the
\* specification words it.
BadCredential(p) ==
    \/ p \notin DOMAIN api_keys
    \/ api_keys[p] = NoKey
    \/ Len(api_keys[p]) < 20
    \/ p = OPENAI /\ ~StartsWith(api_keys[p], SK) /\ ~StartsWith(api_keys[p], ORG)
    \/ p = ANTHROPIC /\ ~StartsWith(api_keys[p], SK_ANT)

\* Some capability names no model or a model outside its allowlist.
SomeModelUnsupported ==
    \/ research_config.model \notin ChatModels
    \/ writing_config.model \notin ChatModels
    \/ image_config.model \notin ImageModels

\* C3: enable_real_ai(provider) ends in InvalidAPIKeyError whenever the
\* provider has no registered credential or the credential fails the format
\* check (shorter than 20, OPENAI without sk-/org-, ANTHROPIC without sk-ant-).
C3_CredentialError ==
    (Called /\ BadCredential(lastEnable.provider))
        => lastEnable.outcome = "InvalidAPIKeyError"

C3_Witness ==
    /\ lastEnable = [provider |-> ANTHROPIC, outcome |-> "InvalidAPIKeyError"]
    /\ api_keys[ANTHROPIC] = MakeKey(SK, MinKeyLen)

\* C4: with a valid credential, enable_real_ai ends in UnsupportedModelError
\* if and only if one of the three configurations names no model or a model
\* outside its allowlist (chat for research and writing, image for image).
C4_ModelErrorIff ==
    (Called /\ ~BadCredential(lastEnable.provider))
        => (lastEnable.outcome = "UnsupportedModelError" <=> SomeModelUnsupported)

C4_Witness ==
    /\ lastEnable.outcome = "UnsupportedModelError"
    /\ research_config.model \in ChatModels
    /\ writing_config.model \in ChatModels
    /\ image_config.model = "gpt-4"

\* C5: whenever enable_real_ai(provider) returns without raising, all three
\* configurations report simulation_mode = FALSE and the provider field is
\* the provider passed in.
C5_SuccessPostcondition ==
    lastEnable.outcome = "ok"
        => /\ ~research_config.simulation_mode
           /\ ~writing_config.simulation_mode
           /\ ~image_config.simulation_mode
           /\ provider = lastEnable.provider

C5_Witness ==
    /\ lastEnable = [provider |-> GOOGLE, outcome |-> "ok"]
    /\ ~image_config.simulation_mode

\* C6: in every reachable state, every configuration whose simulation_mode is
\* FALSE names a model of its capability's allowlist.
C6_RealModeModelAllowed ==
    /\ ~research_config.simulation_mode => research_config.model \in ChatModels
    /\ ~writing_config.simulation_mode => writing_config.model \in ChatModels
    /\ ~image_config.simulation_mode => image_config.model \in ImageModels

---------------------------------------------------------------------------
(* Claims about the package agents' requests and results *)

\* The invalid requests: research without topic or with a depth outside
\* 1..3; writer with a blank title, a blank summary or no key point; image
\* with a blank prompt, a size outside the three sizes or a quality outside
\* standard and hd.
InvalidRequest(agent, message) ==
    IF agent = "research"
    THEN \/ "topic" \notin DOMAIN message
         \/ "depth" \in DOMAIN message /\ message.depth \notin 1..3
    ELSE IF agent = "writer"
    THEN \/ "title" \in DOMAIN message /\ IsBlank(message.title)
         \/ "executive_summary" \in DOMAIN message /\ IsBlank(message.executive_summary)
         \/ "key_points" \in DOMAIN message /\ message.key_points = <<>>
    ELSE \/ "prompt" \in DOMAIN message /\ IsBlank(message.prompt)
         \/ "size" \in DOMAIN message
              /\ message.size \notin {"1024x1024", "1024x1792", "1792x1024"}
         \/ "quality" \in DOMAIN message /\ message.quality \notin {"standard", "hd"}

\* C11: a package agent's process called with an invalid request raises that
\* agent's error before any external API call, any templater call and any
\* client initialisation; no request and no result is built.
C11_InvalidRequestRaisesFirst ==
    (call.pc # "idle" /\ InvalidRequest(call.agent, call.message[1]))
        => /\ call.pc = "raised"
           /\ call.error = AgentError(call.agent)
           /\ call.calls = 0
           /\ call.inits = 0
           /\ call.templates = 0
           /\ call.request = <<>>
           /\ call.result = <<>>

\* An image request with a size outside the enum is refused although real
\* mode is on and a client could have been made.
C11_Witness ==
    /\ call.pc = "raised"
    /\ call.agent = "image"
    /\ DOMAIN call.message[1] = ImageMessageKeys
    /\ call.message[1].size = "512x512"
    /\ ~IsBlank(call.message[1].prompt)
    /\ call.message[1].quality = "hd"
    /\ ~image_config.simulation_mode
    /\ has_valid_api_key(OPENAI)

WordCountOk(result) ==
    /\ result.word_count = WordCount(result.article_text)
    /\ result.word_count >= 100

\* C12: every result a writer agent's process returns, package or demo, on
\* the real path or on the simulation path, has word_count equal to the
\* number of whitespace-separated tokens of its article_text, and
\* word_count >= 100.
C12_WordCount ==
    /\ Len(run.writer_result) = 1 => WordCountOk(run.writer_result[1].content)
    /\ (call.agent = "writer" /\ call.pc = "returned") => WordCountOk(call.result[1])

---------------------------------------------------------------------------
(* Claims about the templaters *)

TrialsOf(fn) == {i \in 1..Len(trials) : trials[i].fn = fn}

\* C13: get_enhanced_research_content(topic) returns exactly the same result
\* on repeated calls, whatever happens in between, and the result has at
\* least 4 key points, at least one keyword and a confidence in [0,1].
C13_ResearchContentDeterministic ==
    /\ \A i, j \in TrialsOf("research") :
          trials[i].input = trials[j].input => trials[i].output = trials[j].output
    /\ \A i \in TrialsOf("research") :
          /\ Len(trials[i].output.key_points) >= 4
          /\ Len(trials[i].output.keywords) >= 1
          /\ trials[i].output.research_confidence >= 0
          /\ trials[i].output.research_confidence <= 1000

\* Two calls with the same non-empty topic, with real mode enabled in between.
C13_Witness ==
    /\ Len(trials) = 2
    /\ trials[1].fn = "research" /\ trials[2].fn = "research"
    /\ trials[1].input = <<Atom("E")>>
    /\ trials[2].input = <<Atom("E")>>
    /\ trials[1].provider = SIMULATION
    /\ trials[2].provider = OPENAI

\* The placeholder identifier: the seed in the image URL.
SeedOf(image) == image.image_url[2]

\* C14: the placeholder identifier of the demo image agent's simulation path
\* is a function of the first three keywords only: two calls whose keyword
\* lists agree on their first three entries return the identical identifier
\* and the identical image URL.
C14_SeedOfFirstThree ==
    \A i, j \in TrialsOf("image") :
        Take(trials[i].input, 3) = Take(trials[j].input, 3)
            => /\ SeedOf(trials[i].output) = SeedOf(trials[j].output)
               /\ trials[i].output.image_url = trials[j].output.image_url

\* Two calls whose lists differ only in the fourth keyword.
C14_Witness ==
    /\ Len(trials) = 2
    /\ trials[1].fn = "image" /\ trials[2].fn = "image"
    /\ trials[1].input = <<KwA, KwB, KwA, KwA>>
    /\ trials[2].input = <<KwA, KwB, KwA, KwB>>
    /\ trials[1].provider # trials[2].provider

\* C15: two keyword lists that differ in at least one of their first three
\* entries yield different placeholder identifiers, the content hash being
\* taken as injective on its input text.
C15_SeedsDiffer ==
    \A i, j \in TrialsOf("image") :
        Take(trials[i].input, 3) # Take(trials[j].input, 3)
            => SeedOf(trials[i].output) # SeedOf(trials[j].output)

\* The payload the package image agent's simulation path gives a request
\* like the one in flight, with another prompt.
SimulationPayload(prompt) ==
    SimulationResult("image", [call.request[1] EXCEPT !.prompt = prompt]).image_data

\* C16: the package ImageAgent.process builds the payload of its simulation
\* path from the request: requests with different prompts receive different
\* payloads, and requests with the same prompt the same payload.
C16_PayloadFromRequest ==
    (call.agent = "image" /\ call.pc = "returned" /\ call.path \in {"sim", "fallback"})
        => \A prompt \in {Strip(t) : t \in {u \in Topics : ~IsBlank(u)}} :
              (SimulationPayload(prompt) = call.result[1].image_data)
                  <=> (prompt = call.request[1].prompt)

---------------------------------------------------------------------------
(* Claims about the BMI endpoint *)

\* The requests that were answered with a BMIResponse.
Answered == {i \in TrialsOf("bmi") : Len(trials[i].output.response) = 1}

AnswerOf(i) == trials[i].output.response[1]

\* C17: the assessment follows the threshold bands on the returned value:
\* Underweight below 18.5, Normal weight from 18.5, Overweight above 24.9,
\* Obesity from 29.9 on; every value has exactly one assessment.
C17_Bands ==
    \A i \in Answered :
        LET value == AnswerOf(i).bmi
            status == AnswerOf(i).assessment
        IN /\ value < 1850 => status = "Underweight"
           /\ (value >= 1850 /\ value <= 2490) => status = "Normal weight"
           /\ (value > 2490 /\ value < 2990) => status = "Overweight"
           /\ value >= 2990 => status = "Obesity"
           /\ status \in {"Underweight", "Normal weight", "Overweight", "Obesity"}

Positive(x) == x.m > 0

\* C18: for every positive weight_kg and height_m the endpoint returns bmi
\* equal to weight_kg / height_m squared rounded to two decimals (a nearest
\* hundredth) with the assessment of that rounded value; (70.5, 1.75) gives
\* 23.02 and Normal weight, (50, 1.8) gives 15.43 and Underweight; a request
\* with a parameter that is not positive is refused and computes nothing.
C18_BmiValue ==
    \A i \in TrialsOf("bmi") :
        LET weight_kg == trials[i].input[1]
            height_m == trials[i].input[2]
            reply == trials[i].output
        IN IF Positive(weight_kg) /\ Positive(height_m)
           THEN /\ reply.status = 200
                /\ Len(reply.response) = 1
                /\ LET num == weight_kg.m * 100000
                       den == height_m.m * height_m.m
                       value == reply.response[1].bmi
                   IN /\ 2 * (value * den - num) <= den
                      /\ 2 * (num - value * den) <= den
                /\ reply.response[1].assessment = Assessment(reply.response[1].bmi)
                /\ (weight_kg = Num(705, -1) /\ height_m = Num(175, -2))
                      => reply.response[1] = BMIResponse(2302, "Normal weight")
                /\ (weight_kg = Num(500, -1) /\ height_m = Num(180, -2))
                      => reply.response[1] = BMIResponse(1543, "Underweight")
           ELSE /\ reply.status = 422
                /\ reply.response = <<>>

---------------------------------------------------------------------------
(* Claims about what changes the configuration *)

AnyRealMode ==
    \/ ~research_config.simulation_mode
    \/ ~writing_config.simulation_mode
    \/ ~image_config.simulation_mode

\* C19: an enable_real_ai call that fails with a credential error leaves the
\* provider field and the three configurations as they were; so a capability
\* is out of simulation mode only when the provider field names a provider
\* whose credential is present and well-formed, and calls for a provider
\* without credential never take a capability out of simulation mode.
C19_CredentialFailureChangesNothing ==
    /\ [][lastEnable'.outcome = "InvalidAPIKeyError" => UNCHANGED cfgVars]_vars
    /\ [](AnyRealMode => (provider \in KeyProviders /\ ~BadCredential(provider)))

\* A call without credential that fails after real mode was enabled for
\* another provider.
C19_Witness ==
    /\ lastEnable = [provider |-> OPENAI, outcome |-> "InvalidAPIKeyError"]
    /\ api_keys[OPENAI] = NoKey
    /\ provider = GOOGLE
    /\ ~research_config.simulation_mode

StartsInSimulation ==
    /\ provider = SIMULATION
    /\ research_config.simulation_mode
    /\ writing_config.simulation_mode
    /\ image_config.simulation_mode

\* A step of an agent, of the orchestrator or of the client set-up: it
\* changes their state.
AgentStep ==
    \/ run' # run
    \/ call' # call
    \/ clients' # clients
    \/ openai_client' # openai_client

\* C20: the configuration starts with the three capabilities in simulation
\* mode and provider SIMULATION, and only enable_real_ai changes it: every
\* step of an agent's process, on every path and with the has_valid_api_key
\* queries it makes, and every step of the orchestrator's process leaves the
\* provider, the credentials and the three configurations unchanged.
C20_OnlyEnableChangesConfig ==
    /\ StartsInSimulation
    /\ [][AgentStep => UNCHANGED cfgVars]_vars

\* A package call has fallen back after a failed real call, and the
\* configuration is still in real mode.
C20_Witness ==
    /\ call.pc = "returned"
    /\ call.agent = "research"
    /\ call.path = "fallback"
    /\ call.calls = 1
    /\ ~research_config.simulation_mode
    /\ provider = OPENAI

---------------------------------------------------------------------------
(* Claims about the runs of the demo pipeline *)

\* C21: document assembly is a pure function of the three stage results:
\* assembling the results of a returned run at any other moment yields the
\* document the run returned.
C21_AssemblyPure ==
    run.pc = "done"
        => \A t \in 0..MaxClock :
              create_enhanced_html(run.research_result[1], run.writer_result[1],
                                   run.image_result[1], t)
                  = run.final[1].content

\* C22: there is no retry: every process call of an agent, demo or package,
\* issues at most one external API call and calls its templater at most
\* once; a call whose external call failed has called the templater exactly
\* once when it returns, and a call that returned the external result has
\* not called it.
C22_NoRetry ==
    /\ \A stage \in Stages :
          /\ run.calls[stage] <= 1
          /\ run.templates[stage] <= 1
          /\ run.path[stage] \in {"sim", "fallback"} => run.templates[stage] = 1
          /\ run.path[stage] = "real"
                => (run.calls[stage] = 1 /\ run.templates[stage] = 0)
    /\ call.calls <= 1
    /\ call.templates <= 1
    /\ call.pc = "returned"
          => IF call.path = "real"
             THEN call.calls = 1 /\ call.templates = 0
             ELSE call.templates = 1
    /\ (call.fail \in {"api", "parse", "shape"}) => call.calls = 1

\* A run that returned after its writer stage made one call, which failed,
\* and one templater call.
C22_Witness ==
    /\ run.pc = "done"
    /\ run.path["writer"] = "fallback"
    /\ run.calls["writer"] = 1
    /\ run.templates["writer"] = 1

SleepPcs == {"research_sleep", "writer_sleep", "image_sleep"}

AloneStep(r) == IF r.pc \in SleepPcs THEN SleepOver(r) ELSE r

\* The call of the orchestrator for a topic when nothing else runs between
\* its steps.
Alone(topic) == AloneStep(AloneStep(AloneStep(ResearchBegin(topic))))

\* A stage result without the reading of the clock its Message carries.
Payload(result) ==
    IF result = <<>> THEN <<>>
    ELSE <<[content |-> result[1].content, media_type |-> result[1].media_type,
            model_used |-> result[1].model_used]>>

SameAsAlone(r) ==
    LET a == Alone(r.topic) IN
    r.pc # "idle"
        => /\ r.research_result # <<>>
                => Payload(r.research_result) = Payload(a.research_result)
           /\ r.writer_result # <<>>
                => Payload(r.writer_result) = Payload(a.writer_result)
           /\ r.image_result # <<>>
                => Payload(r.image_result) = Payload(a.image_result)
           /\ r.pc \in {"done", "raised"}
                => /\ r.pc = a.pc
                   /\ r.error = a.error
                   /\ Payload(r.research_result) = Payload(a.research_result)
                   /\ Payload(r.writer_result) = Payload(a.writer_result)
                   /\ Payload(r.image_result) = Payload(a.image_result)

\* C23: of two calls of the orchestrator interleaved at their awaits, under
\* a configuration that stays in simulation mode, each produces the research
\* result, the writer result and the image result, and ends the way, that
\* the call for its topic produces and ends when it runs alone.
C23_InterleavedRunsIndependent ==
    ~AnyRealMode => (SameAsAlone(run) /\ SameAsAlone(peer))

\* Both calls are suspended in a stage, for different topics, each with the
\* results of its earlier stages.
C23_Witness ==
    /\ ~AnyRealMode
    /\ run.pc = "image_sleep"
    /\ peer.pc = "writer_sleep"
    /\ run.topic # peer.topic
    /\ run.writer_result # <<>>
    /\ peer.research_result # <<>>

InFlight == run.pc \notin {"idle", "done", "raised"}

\* How far a call of the orchestrator has come.
Rank(pc) ==
    IF pc \in {"research_api", "research_sleep"} THEN 1
    ELSE IF pc \in {"writer_api", "writer_sleep"} THEN 2
    ELSE IF pc \in {"image_api", "image_sleep"} THEN 3
    ELSE 4

\* C24: every call of the orchestrator terminates: provided each sleep ends
\* and each external API call returns or fails, a call in flight eventually
\* returns a document or raises, and every step it takes moves it to a later
\* stage or to its end, never back to an earlier stage.
C24_RunTerminates ==
    /\ InFlight ~> (run.pc \in {"done", "raised"})
    /\ [][(InFlight /\ run' # run) => Rank(run'.pc) > Rank(run.pc)]_vars

\* A call that returned its document after external calls in the research
\* and the image stage.
C24_Witness ==
    /\ run.pc = "done"
    /\ run.calls["research"] = 1
    /\ run.calls["image"] = 1
    /\ run.path["writer"] = "real"

C29_ShortArticleDiscarded ==
    call.agent = "writer"
        => /\ (call.pc = "returned" /\ call.path = "real")
                => /\ WordCount(call.result[1].article_text) >= 100
                   /\ call.result[1].word_count >= 100
           /\ call.fail = "shape"
                => /\ call.pc \in {"sleep", "returned"}
                   /\ call.pc = "returned"
                        => /\ call.path = "fallback"
                           /\ call.result
                                 = <<SimulationResult("writer", call.request[1])>>
                           /\ call.result[1].word_count >= 100

\* The call returned the templated article after the model's article was
\* discarded.
C29_Witness ==
    /\ call.agent = "writer"
    /\ call.pc = "returned"
    /\ call.fail = "shape"
    /\ call.templates = 1
    /\ call.result = <<SimulationResult("writer", call.request[1])>>
    /\ provider = OPENAI

\* C30: the agents read the live configuration: in a run that started under
\* simulation mode, every stage that starts after enable_real_ai took the
\* capabilities out of simulation mode takes the real path, neither sleeping
\* in the simulation branch nor returning what that branch produces.
C30_LaterStagesTakeRealPath ==
    run.startMode["research"] = "sim"
        => \A stage \in {"writer", "image"} :
              run.startMode[stage] = "real"
                => /\ run.pc # stage \o "_sleep"
                   /\ run.path[stage] # "sim"

---------------------------------------------------------------------------
(* Claims about the configuration over time *)

\* C25: an enable_real_ai call that fails with a model-support error leaves
\* the provider field and the three simulation_mode flags as they were
\* before the call.
C25_ModelFailureChangesNothing ==
    [][(EnableRealAI /\ lastEnable'.outcome = "UnsupportedModelError")
          => /\ provider' = provider
             /\ research_config'.simulation_mode = research_config.simulation_mode
             /\ writing_config'.simulation_mode = writing_config.simulation_mode
             /\ image_config'.simulation_mode = image_config.simulation_mode]_vars

\* C26: in every state reached from the initial configuration by
\* enable_real_ai calls, failed ones included, the three simulation_mode flags
\* are equal, and they are TRUE exactly when the provider field is SIMULATION.
C26_FlagsAgreeWithProvider ==
    /\ research_config.simulation_mode = writing_config.simulation_mode
    /\ writing_config.simulation_mode = image_config.simulation_mode
    /\ research_config.simulation_mode <=> provider = SIMULATION

\* The state a call leaves that failed with a model-support error.
C26_Witness ==
    /\ lastEnable = [provider |-> OPENAI, outcome |-> "UnsupportedModelError"]
    /\ provider = OPENAI
    /\ ~writing_config.simulation_mode

\* C27: leaving simulation mode is irreversible: a simulation_mode flag that
\* is FALSE stays FALSE, enable_real_ai(SIMULATION) always ends in the
\* credential error, and a provider field that left SIMULATION never returns
\* to it.
C27_Irreversible ==
    /\ [][/\ ~research_config.simulation_mode => ~research_config'.simulation_mode
          /\ ~writing_config.simulation_mode => ~writing_config'.simulation_mode
          /\ ~image_config.simulation_mode => ~image_config'.simulation_mode
          /\ provider # SIMULATION => provider' # SIMULATION]_vars
    /\ []((Called /\ lastEnable.provider = SIMULATION)
             => lastEnable.outcome = "InvalidAPIKeyError")

\* enable_real_ai(SIMULATION) was called after real mode was enabled.
C27_Witness ==
    /\ lastEnable = [provider |-> SIMULATION, outcome |-> "InvalidAPIKeyError"]
    /\ provider = ANTHROPIC
    /\ ~research_config.simulation_mode
    /\ ~image_config.simulation_mode

===========================================================================
